---- MODULE Spec2Model ----
(***************************************************************************)
(* Model of the git-backed message store of bookchat.                      *)
(*                                                                         *)
(* The repository (branches, committed trees, index, working tree) is the  *)
(* state; UserBranchManager's methods are translated statement by          *)
(* statement into a small step machine (one step per git command or file   *)
(* operation).  A whole call is the composition of its steps (Run); the    *)
(* threaded server interleaves the same steps.                             *)
(*                                                                         *)
(* The git binary is an external collaborator.  Its commands are modelled  *)
(* by what git does to the branch set, the index and the working tree, and *)
(* every command may also fail for an outside reason (lock file, disk,     *)
(* network), chosen per call by the set F of failing command positions.    *)
(***************************************************************************)
EXTENDS Integers, Sequences, FiniteSets, TLC

\* ------------------------------------------------------------------ bounds
MaxMsgs == 2          \* message ids handed out in one behaviour
MaxRebuildMsgs == 1   \* the same, in the behaviours that rebuild the pool
MaxFailures == 1      \* outside failures injected in one behaviour
MaxFsMsgs == 2        \* ids returned by FileStorage.save_message in one behaviour
MaxGsMsgs == 2        \* GitStorage.save_message calls in one behaviour
MaxMerges == 3        \* runs of copy_messages_to_main in one behaviour
MaxPeerFiles == 2     \* message files in the messages directory of a peer
MaxSyncs == 2         \* fork synchronisations in one behaviour
MaxTime == 8          \* seconds that pass in one behaviour
MaxPinCalls == 3      \* pin_message and unpin_message calls in one behaviour
MaxCommits == 2       \* commits sync_repository makes in one behaviour
MaxCfMsgs == 1        \* messages storage.FileStorage.save_message saves in one behaviour
MaxCfCalls == 3       \* storage.FileStorage.update_message calls made one after another
UserOrder == <<"alice", "bob">>   \* the user names, in the order git lists them
Users == {UserOrder[k] : k \in 1..Len(UserOrder)}
Contents == {"hello"}
\* user names that are not well-formed: the empty name, a name with '/'
BadNames == {"", "a/b"}
Names == Users \cup BadNames

\* --------------------------------------------------------------- constants
Main == <<"main">>
NoKey == "<missing>"  \* the message dict has no 'content' key

UserBranch(username) == <<"user", username>>
AllBranches == {Main} \cup {UserBranch(u) : u \in Users}
Ids == 1..MaxMsgs

\* one server thread per author: the requests of different authors run
\* concurrently
Threads == 1..Len(UserOrder)
AuthorOf(t) == UserOrder[t]

\* ------------------------------------------------------------------- paths
AU == [kind |-> "active_users", user |-> "", id |-> 0]
Readme(u) == [kind |-> "readme", user |-> u, id |-> 0]
MsgPath(u, i) == [kind |-> "msg", user |-> u, id |-> i]
PoolPath(u, i) == [kind |-> "pool", user |-> u, id |-> i]
MsgPaths == {MsgPath(u, i) : u \in Users, i \in Ids}
PoolPaths == {PoolPath(u, i) : u \in Users, i \in Ids}
\* Readme(""): messages/README.md, the "user directory" of the empty name
Paths == {AU} \cup {Readme(u) : u \in Users \cup {""}} \cup MsgPaths \cup PoolPaths

\* A file's content is a sequence; the empty sequence stands for "no file".
Absent == <<>>
NoTree == [p \in Paths |-> Absent]

VARIABLES
  head,        \* the checked-out branch
  branches,    \* local branches that exist
  tree,        \* tree[b][p]: content of path p at the tip of branch b
  index,       \* the staging area
  wt,          \* the working tree (tracked and untracked files)
  remote_refs, \* users u with a remote-tracking ref origin/user/<u>
  log,         \* log[b]: paths changed by commits made while b was checked out
  test_mode,   \* GitManager.test_mode
  use_github,  \* GitManager.use_github
  nextId,      \* next fresh message id
  last,        \* the call that returned last
  origin,      \* branch checked out before the current run of save_message calls
  threads,     \* the frame of each server thread
  failures,    \* outside failures injected so far
  saved,       \* the messages whose id a save_message call has returned
  fs,          \* FileStorage: fs[id] is the text of messages/<id>.txt
  fs_ids,      \* FileStorage: the ids returned by save_message, in call order
  fs_last,     \* FileStorage: the call that returned last
  gs,          \* GitStorage: gs[id] is the text of messages/<id>.txt
  gs_head,     \* GitStorage: the text of each file in the last commit
  gs_ids,      \* GitStorage: the ids returned by save_message, in call order
  gs_last,     \* GitStorage: the call that returned last
  main_messages, \* sync_forks: main_messages[n] is the file messages/<n>.json
  cloned,      \* sync_forks: cloned[d] is the directory cloned_repos/<d>
  merge_last,  \* sync_forks: the run that returned last
  now,         \* time.time(), in seconds since the server started
  last_pull_time, \* GitManager.last_pull_time
  pull_last,   \* GitManager.pull_from_github: the call that returned last
  backend,         \* the storage class the server was started with
  messages_dir,    \* storage.GitStorage: the ids with a file in messages/
  pinned_data,     \* storage.GitStorage: the dictionary of pinned_messages.json
  messages_table,  \* SQLiteStorage: is_pinned of each row of messages (-1: no row)
  pinned_messages, \* SQLiteStorage: the rows of pinned_messages, oldest first
  unique_pins,     \* SQLiteStorage: pinned_messages.message_id is declared unique
  pin_last,        \* the pin_message or unpin_message call that returned last
  status,          \* git_sync: the `git status --porcelain` code of each file
  commits,         \* git_sync: the commits made, oldest first
  sync_last,       \* git_sync.sync_repository: the call that returned last
  cf_files,        \* storage.FileStorage: cf_files[i] is the text of <i>.txt
  cf_tmp,          \* storage.FileStorage: cf_tmp[i] is the text of <i>.tmp
  cf_calls,        \* storage.FileStorage: the update_message call of each thread
  cf_last          \* storage.FileStorage: the call that returned last

vars == <<head, branches, tree, index, wt, remote_refs, log, test_mode,
          use_github, nextId, last, origin, threads, failures, saved,
          fs, fs_ids, fs_last, gs, gs_head, gs_ids, gs_last,
          main_messages, cloned, merge_last, now, last_pull_time, pull_last,
          backend, messages_dir, pinned_data, messages_table,
          pinned_messages, unique_pins, pin_last, status, commits, sync_last,
          cf_files, cf_tmp, cf_calls, cf_last>>

\* the variables of the user-branch store and of the other stores
branchvars == <<head, branches, tree, index, wt, remote_refs, log, test_mode,
                use_github, nextId, last, origin, threads, failures, saved>>
storevars == <<fs, fs_ids, fs_last>>
gitvars == <<gs, gs_head, gs_ids, gs_last>>
forkvars == <<main_messages, cloned, merge_last>>
pullvars == <<now, last_pull_time, pull_last>>
pinvars == <<backend, messages_dir, pinned_data, messages_table,
             pinned_messages, unique_pins, pin_last>>
syncvars == <<status, commits, sync_last>>
codecvars == <<cf_files, cf_tmp, cf_calls, cf_last>>
sidevars == <<forkvars, pullvars, pinvars, syncvars, codecvars>>

Repo == [head |-> head, branches |-> branches, tree |-> tree, index |-> index,
         wt |-> wt, remote_refs |-> remote_refs, log |-> log]

SetRepo(g) ==
  /\ head' = g.head
  /\ branches' = g.branches
  /\ tree' = g.tree
  /\ index' = g.index
  /\ wt' = g.wt
  /\ remote_refs' = g.remote_refs
  /\ log' = g.log

\* ------------------------------------------------------------ git commands
\* Each returns [ok, g]: the exit status and the repository afterwards.

\* git checkout <b>: refuses when a path that differs between the two tips
\* has local changes (staged, unstaged or an untracked file in the way).
CanSwitch(g, b, p) ==
  LET old == g.tree[g.head][p]
      new == g.tree[b][p]
  IN  \/ old = new
      \/ g.index[p] = old /\ g.wt[p] = g.index[p]
      \/ g.index[p] = new

Moves(g, b, p) ==
  /\ g.tree[g.head][p] # g.tree[b][p]
  /\ g.index[p] = g.tree[g.head][p]

git_checkout(g, b) ==
  IF b \notin g.branches \/ \E p \in Paths : ~CanSwitch(g, b, p)
  THEN [ok |-> FALSE, g |-> g]
  ELSE [ok |-> TRUE,
        g |-> [g EXCEPT !.head = b,
                 !.index = [p \in Paths |-> IF Moves(g, b, p) THEN g.tree[b][p] ELSE g.index[p]],
                 !.wt = [p \in Paths |-> IF Moves(g, b, p) THEN g.tree[b][p] ELSE g.wt[p]]]]

\* git checkout -b <b>: a new branch at the current tip; index and working
\* tree are kept.
git_checkout_b(g, b) ==
  IF b \in g.branches \/ b \notin AllBranches    \* 'user/' is no valid ref name
  THEN [ok |-> FALSE, g |-> g]
  ELSE [ok |-> TRUE,
        g |-> [g EXCEPT !.head = b,
                 !.branches = @ \cup {b},
                 !.tree[b] = g.tree[g.head]]]

\* git add <p>
git_add(g, p) ==
  IF g.wt[p] = Absent /\ g.index[p] = Absent
  THEN [ok |-> FALSE, g |-> g]
  ELSE [ok |-> TRUE, g |-> [g EXCEPT !.index[p] = g.wt[p]]]

\* git commit -m ... --author=...: commits the whole index; exit status 1
\* when nothing is staged.
git_commit(g) ==
  IF g.index = g.tree[g.head]
  THEN [ok |-> FALSE, g |-> g]
  ELSE [ok |-> TRUE,
        g |-> [g EXCEPT !.tree[g.head] = g.index,
                 !.log[g.head] = @ \cup {p \in Paths : g.index[p] # g.tree[g.head][p]}]]

\* a command that only reads (branch -l, branch -r)
git_query(g) == [ok |-> TRUE, g |-> g]

\* git fetch origin user/<u>: succeeds when the remote has the branch, and
\* then creates or updates origin/user/<u>.  The remote has a copy of every
\* user branch of this repository; a fetch that fails is an outside failure.
git_fetch(g, u) ==
  IF UserBranch(u) \notin g.branches
  THEN [ok |-> FALSE, g |-> g]
  ELSE [ok |-> TRUE, g |-> [g EXCEPT !.remote_refs = @ \cup {u}]]

\* GitManager._get_current_branch
get_current_branch(g) == g.head

\* ------------------------------------------------------- names and content
UsernameChars ==
  [u \in Names |-> CASE u = "alice" -> <<"a", "l", "i", "c", "e">>
                     [] u = "bob" -> <<"b", "o", "b">>
                     [] u = "a/b" -> <<"a", "/", "b">>
                     [] OTHER -> <<>>]
Alnum == {"a", "b", "c", "e", "i", "l", "o"}

\* ensure_user_branch, line 70: the name is refused only when it is not
\* alphanumeric and has a non-alphanumeric character outside '-_'.
ValidUsername(u) ==
  LET cs == UsernameChars[u]
      isalnum == Len(cs) > 0 /\ \A k \in 1..Len(cs) : cs[k] \in Alnum
  IN  isalnum \/ \A k \in 1..Len(cs) : cs[k] \notin Alnum => cs[k] \in {"-", "_"}

IsPrefix(s, t) == Len(s) <= Len(t) /\ \A k \in 1..Len(s) : s[k] = t[k]

\* the pool file name <user>_<id>.txt; "#" stands for the digits of the id
PoolName(p) == UsernameChars[p.user] \o <<"_", "#">>

\* glob f"{username}_*.txt"
GlobMatch(u, p) == IsPrefix(UsernameChars[u] \o <<"_">>, PoolName(p))

ReadmeText(u) == <<"# Messages from", u>>

\* A file is a sequence of lines and a line a sequence of words.
\* _write_message_file: one "key: value" line per key of the dict, the
\* element "\n" (two empty lines once joined) and the content again.
write_message_file(author, content) ==
  << <<"content:", content>>, <<"author:", author>>, <<>>, <<>>, <<content>> >>

NoUsers == [u \in Users \cup {""} |-> -1]

\* _load_active_users: the 'users' dict; -1 stands for "no entry".  The
\* last_active / last_updated time stamps are not modelled.
load_active_users(g) == IF g.wt[AU] = Absent THEN NoUsers ELSE g.wt[AU][1]

count_user_messages(g, u) ==
  Cardinality({p \in PoolPaths : g.wt[p] # Absent /\ GlobMatch(u, p)})

\* _update_active_user up to the json.dump of _save_active_users
update_active_user(g, u) ==
  [g EXCEPT !.wt[AU] = << [load_active_users(g) EXCEPT ![u] = count_user_messages(g, u)] >>]

\* messages/<u>/ exists when a file lives in it
DirExists(g, u) ==
  \/ g.wt[Readme(u)] # Absent
  \/ \E i \in Ids : g.wt[MsgPath(u, i)] # Absent

\* ------------------------------------------------- FileStorage: the reader
None == <<>>
Headers == [id |-> "ID:", content |-> "Content:", author |-> "Author:",
            timestamp |-> "Timestamp:"]
Fields == DOMAIN Headers

\* the first line after line k that holds a word: "\s*" runs over line ends
NextText(text, k) ==
  LET J == {j \in (k + 1)..Len(text) : text[j] # <<>>}
  IN  IF J = {} THEN 0 ELSE CHOOSE j \in J : \A i \in J : j <= i

\* line k matches (?:^|\n)<header>\s*(.+?)(?:\n|$), case-sensitively
Matches(text, k, header) ==
  /\ text[k] # <<>>
  /\ text[k][1] = header
  /\ Len(text[k]) > 1 \/ NextText(text, k) # 0

\* group(1).strip() of the match at line k
Group(text, k) ==
  IF Len(text[k]) > 1 THEN Tail(text[k]) ELSE text[NextText(text, k)]

\* re.search: the first match of the header in the text
search(text, header) ==
  LET K == {k \in 1..Len(text) : Matches(text, k, header)}
  IN  IF K = {} THEN None
      ELSE Group(text, CHOOSE k \in K : \A i \in K : k <= i)

\* lines 53-61: the lines that no header pattern matched
Remaining(text) ==
  LET Used == {k \in 1..Len(text) :
                 \E f \in Fields :
                   \/ Matches(text, k, Headers[f])
                   \/ \E j \in 1..(k - 1) :
                        /\ Matches(text, j, Headers[f])
                        /\ Len(text[j]) = 1
                        /\ NextText(text, j) = k}
      Idx == {k \in 1..Len(text) : k \notin Used /\ text[k] # <<>>}
      Lines[k \in 0..Len(text)] ==
        IF k = 0 THEN <<>>
        ELSE IF k \in Idx THEN Append(Lines[k - 1], text[k]) ELSE Lines[k - 1]
  IN  Lines[Len(text)]

\* FileStorage._parse_message_content; a content is a sequence of lines
parse_message_content(text) ==
  LET c == search(text, Headers.content)
  IN  [id |-> search(text, Headers.id),
       content |-> IF c # None THEN <<c>> ELSE Remaining(text),
       author |-> search(text, Headers.author),
       timestamp |-> search(text, Headers.timestamp)]

\* a file whose bytes are not UTF-8: f.read() raises UnicodeDecodeError
Garbled == << <<"\\xff">> >>

\* get_messages with the try of lines 73-81 around the whole loop: one file
\* that cannot be read or decoded ends the listing
DecodedOrFail(listing) ==
  LET ms == [k \in 1..Len(listing) |-> parse_message_content(listing[k])]
  IN  IF \E k \in 1..Len(ms) :
           \/ listing[k] = Garbled
           \/ ms[k].id = None \/ ms[k].content = None \/ ms[k].author = None
      THEN <<>> ELSE ms

\* FileStorage.get_messages, lines 71-81, over the files in sorted order: a
\* file that cannot be read (lines 79-81) or lacks a required field (line
\* 77) is left out
Decoded(listing) ==
  SelectSeq([k \in 1..Len(listing) |->
               IF listing[k] = Garbled THEN parse_message_content(<<>>)
               ELSE parse_message_content(listing[k])],
            LAMBDA m : m.id # None /\ m.content # None /\ m.author # None)

\* sorted(messages_dir.glob('*.txt')) over the pool of the user-branch store
RECURSIVE PoolListing(_, _, _)
PoolListing(g, k, i) ==
  IF k > Len(UserOrder) THEN <<>>
  ELSE IF i > MaxMsgs THEN PoolListing(g, k + 1, 1)
  ELSE LET t == g.wt[PoolPath(UserOrder[k], i)]
       IN  (IF t = Absent THEN <<>> ELSE <<t>>) \o PoolListing(g, k, i + 1)

\* ------------------------------------------------- FileStorage: the writer
\* A timestamp '%Y-%m-%dT%H:%M:%S%z': the wall-clock second and the UTC
\* offset, in the same unit; the instant is their difference.
Timestamps == {[local |-> 1, off |-> 0], [local |-> 2, off |-> 0],
               [local |-> 2, off |-> 2]}
Utc(ts) == ts.local - ts.off

\* contents, as lines of words: one line, two lines, a second line that
\* looks like a header, one line that looks like a header
FsContents == { << <<"hello">> >>, << <<"hello">>, <<"world">> >>,
                << <<"hi">>, <<"Author:", "x">> >>, << <<"Author:", "x">> >> }
Empty == << <<>> >>              \* ''
Blank == << <<>>, <<>> >>        \* '   \n\t  '

\* an id: strftime('%Y%m%d_%H%M%S') of the timestamp and the counter suffix
\* (0: no suffix)
Locals == {ts.local : ts \in Timestamps}
FsIds == [local : Locals, n : 0..MaxFsMsgs]
NoFiles == [id \in FsIds |-> Absent]

\* the id without the counter loop of lines 103-107
message_id_base(files, ts) == [local |-> ts.local, n |-> 0]

\* lines 100-107: the first of <base>, <base>_1, <base>_2 ... not on disk
message_id(files, ts) ==
  LET free == {n \in 0..MaxFsMsgs : files[[local |-> ts.local, n |-> n]] = Absent}
  IN  [local |-> ts.local, n |-> CHOOSE n \in free : \A k \in free : n <= k]

\* lines 112-117: the headers, the content on the Content line
FsEncode(id, m) ==
  << <<"ID:", id>>, <<"Content:">> \o Head(m.content) >>
    \o Tail(m.content)
    \o << <<"Author:", m.author>>, <<"Timestamp:", m.timestamp>> >>

\* sorted(messages_dir.glob('*.txt')): by wall-clock second, then '.txt'
\* before '_1.txt' before '_2.txt'
RECURSIVE FsListing(_, _, _)
FsListing(files, l, n) ==
  IF l \notin Locals THEN <<>>
  ELSE IF n > MaxFsMsgs THEN FsListing(files, l + 1, 0)
  ELSE LET t == files[[local |-> l, n |-> n]]
       IN  (IF t = Absent THEN <<>> ELSE <<t>>) \o FsListing(files, l, n + 1)

\* FileStorage.get_messages
get_messages(files) == Decoded(FsListing(files, 1, 0))

\* str.strip() of a content: lines without words at both ends go
RECURSIVE lstrip(_)
lstrip(c) == IF c = <<>> THEN <<>>
             ELSE IF Head(c) = <<>> THEN lstrip(Tail(c)) ELSE c
RECURSIVE rstrip(_)
rstrip(c) == IF c = <<>> THEN <<>>
             ELSE IF c[Len(c)] = <<>> THEN rstrip(SubSeq(c, 1, Len(c) - 1)) ELSE c
strip(c) == LET r == rstrip(lstrip(c)) IN IF r = <<>> THEN Empty ELSE r

FsIdle == [op |-> "idle", ret |-> None, msg |-> None, success |-> TRUE, before |-> 0]
Count(files) == Cardinality({id \in FsIds : files[id] # Absent})

\* ---------------------------------------------------- GitStorage: the files
\* line 103: YYYYMMDD_HHMMSS_<author>.txt
GsIds == [local : Locals, author : Users]
NoGsFiles == [id \in GsIds |-> Absent]
GsContents == {"hello", "bye"}
GsIdle == [op |-> "idle", ret |-> None, before |-> NoGsFiles, calls |-> 0,
           fail |-> "none"]

filename(m) == [local |-> m.timestamp.local, author |-> m.author]

\* lines 113-118
formatted_message(m) ==
  << <<"ID:", filename(m)>>, <<"Content:", m.content>>,
     <<"Author:", m.author>>, <<"Timestamp:", m.timestamp>> >>

\* ------------------------------------------------------------------ frames
\* The local variables of one call.  F is the set of positions (counted by n)
\* at which the environment makes a command or file operation fail.
NewFrame(op, u, c, i, F, h) ==
  [op |-> op, pc |-> CASE op = "save" -> "e_start"
                       [] op = "ensure" -> "e_start"
                       [] op = "sync_user" -> "y_cur"
                       [] op = "sync_all" -> "a_list"
                       [] OTHER -> "idle",
   user |-> u, content |-> c, id |-> i, F |-> F, n |-> 0,
   cur |-> h, scur |-> h, ret |-> "", e_ret |-> "", e_left |-> FALSE,
   clean |-> TRUE, e_fail |-> "", todo |-> <<>>, head0 |-> h,
   existed |-> FALSE]

IdleFrame == NewFrame("idle", "", "", 0, {}, Main)

\* _run_git_command(command): runs the command; a non-zero exit status
\* raises CalledProcessError unless test_mode, where it is logged and
\* swallowed.  res is what git itself would do.
run_git_command(g, f, res) ==
  LET ok == res.ok /\ (f.n + 1) \notin f.F
  IN  [ok |-> ok,
       raised |-> ~ok /\ ~test_mode,
       g |-> IF ok THEN res.g ELSE g,
       f |-> [f EXCEPT !.n = @ + 1, !.clean = @ /\ ok]]

\* a file operation (open, mkdir, copy2) hit by an outside I/O error
io_fails(f) == (f.n + 1) \in f.F
Tick(f) == [f EXCEPT !.n = @ + 1, !.clean = @ /\ ~io_fails(f)]

At(r, pc) == [g |-> r.g, f |-> [r.f EXCEPT !.pc = pc]]
Goto(g, f, pc) == [g |-> g, f |-> [f EXCEPT !.pc = pc]]
Return(g, f, ret) == [g |-> g, f |-> [f EXCEPT !.pc = "done", !.ret = ret]]
Left(r) == [r EXCEPT !.f.e_left = @ \/ r.g.head # r.f.cur]

\* sync_user_messages, lines 217-221: every messages/<u>/*.txt is copied to
\* the pool as <u>_<name>
copy_to_pool(g, u) ==
  [p \in Paths |->
     IF p.kind = "pool" /\ p.user = u /\ g.wt[MsgPath(p.user, p.id)] # Absent
     THEN g.wt[MsgPath(p.user, p.id)] ELSE g.wt[p]]

\* ensure_user_branch returns: to its caller save_message, or to the client
ensure_return(g, f, result) ==
  LET f1 == [f EXCEPT !.e_ret = IF result THEN "True" ELSE "False",
                      !.e_fail = IF result THEN "" ELSE f.pc]
  IN  IF f.op = "ensure" THEN Return(g, f1, f1.e_ret)
      ELSE IF result THEN Goto(g, f1, "s_cur")
      ELSE Return(g, f1, "None")     \* save_message, lines 149-150 and 182-184

\* sync_user_messages returns: to the loop of sync_all_messages, or to the client
sync_return(g, f, result) ==
  IF f.op = "sync_user" THEN Return(g, f, IF result THEN "True" ELSE "False")
  ELSE Goto(g, f, "a_next")          \* sync_all_messages ignores the result

\* the users of the origin/user/* lines of `git branch -r`, in listing order
Listing(S) == SelectSeq(UserOrder, LAMBDA u : u \in S)

\* ensure_user_branch, lines 79-104: the block that creates the branch is
\* skipped when `git branch -l` listed it
after_list(exists) == IF exists THEN "e_back" ELSE "e_co_main"

\* ---------------------------------------------------------------- one step
Step(g, f) ==
  CASE f.pc = "e_start" ->            \* ensure_user_branch, lines 68-74
        IF ~ValidUsername(f.user) THEN ensure_return(g, f, FALSE)
        ELSE Goto(g, [f EXCEPT !.cur = get_current_branch(g)], "e_list")
    [] f.pc = "e_list" ->             \* line 77: git branch -l user/<u>
        LET r == run_git_command(g, f, git_query(g))
            exists == r.ok /\ UserBranch(f.user) \in g.branches
        IN  IF r.raised THEN ensure_return(r.g, r.f, FALSE)
            ELSE At([r EXCEPT !.f.existed = exists], after_list(exists))
    [] f.pc = "e_co_main" ->          \* line 81
        LET r == Left(run_git_command(g, f, git_checkout(g, Main)))
        IN  IF r.raised THEN ensure_return(r.g, r.f, FALSE) ELSE At(r, "e_co_new")
    [] f.pc = "e_co_new" ->           \* line 82
        LET r == Left(run_git_command(g, f, git_checkout_b(g, UserBranch(f.user))))
        IN  IF r.raised THEN ensure_return(r.g, r.f, FALSE) ELSE At(r, "e_readme")
    [] f.pc = "e_readme" ->           \* lines 85-91: mkdir, write README.md
        IF io_fails(f) THEN ensure_return(g, Tick(f), FALSE)
        ELSE Goto([g EXCEPT !.wt[Readme(f.user)] = ReadmeText(f.user)], Tick(f), "e_add")
    [] f.pc = "e_add" ->              \* add_and_commit_file, line 634
        LET r == run_git_command(g, f, git_add(g, Readme(f.user)))
        IN  IF r.raised THEN At(r, "e_au_write") ELSE At(r, "e_commit")
    [] f.pc = "e_commit" ->           \* add_and_commit_file, line 637
        At(run_git_command(g, f, git_commit(g)), "e_au_write")
    [] f.pc = "e_au_write" ->         \* line 101: _update_active_user
        Goto(update_active_user(g, f.user), f, "e_au_add")
    [] f.pc = "e_au_add" ->
        LET r == run_git_command(g, f, git_add(g, AU))
        IN  IF r.raised THEN At(r, "e_back") ELSE At(r, "e_au_commit")
    [] f.pc = "e_au_commit" ->
        At(run_git_command(g, f, git_commit(g)), "e_back")
    [] f.pc = "e_back" ->             \* line 104
        LET r == run_git_command(g, f, git_checkout(g, f.cur))
        IN  ensure_return(r.g, r.f, ~r.raised)
    [] f.pc = "s_cur" ->              \* save_message, line 152
        Goto(g, [f EXCEPT !.scur = get_current_branch(g)], "s_co_user")
    [] f.pc = "s_co_user" ->          \* line 155
        LET r == run_git_command(g, f, git_checkout(g, UserBranch(f.user)))
        IN  IF r.raised THEN Return(r.g, r.f, "None") ELSE At(r, "s_write")
    [] f.pc = "s_write" ->            \* lines 158-159: _write_message_file
        IF f.content = NoKey \/ io_fails(f) \/ ~DirExists(g, f.user)
        THEN Return(g, Tick(f), "None")
        ELSE Goto([g EXCEPT !.wt[MsgPath(f.user, f.id)] = write_message_file(f.user, f.content)],
                  Tick(f), "s_add")
    [] f.pc = "s_add" ->              \* lines 162-166: add_and_commit_file
        LET r == run_git_command(g, f, git_add(g, MsgPath(f.user, f.id)))
        IN  IF r.raised THEN At(r, "s_back") ELSE At(r, "s_commit")
    [] f.pc = "s_commit" ->
        At(run_git_command(g, f, git_commit(g)), "s_back")
    [] f.pc = "s_back" ->             \* line 171 (push, lines 167-168, changes nothing here)
        LET r == run_git_command(g, f, git_checkout(g, f.scur))
        IN  IF r.raised THEN Return(r.g, r.f, "None") ELSE At(r, "s_copy")
    [] f.pc = "s_copy" ->             \* lines 174-175: shutil.copy2
        IF io_fails(f) \/ g.wt[MsgPath(f.user, f.id)] = Absent
        THEN Return(g, Tick(f), "None")
        ELSE Goto([g EXCEPT !.wt[PoolPath(f.user, f.id)] = g.wt[MsgPath(f.user, f.id)]],
                  Tick(f), "s_au_write")
    [] f.pc = "s_au_write" ->         \* line 178
        Goto(update_active_user(g, f.user), f, "s_au_add")
    [] f.pc = "s_au_add" ->
        LET r == run_git_command(g, f, git_add(g, AU))
        IN  IF r.raised THEN Return(r.g, r.f, "id") ELSE At(r, "s_au_commit")
    [] f.pc = "s_au_commit" ->
        LET r == run_git_command(g, f, git_commit(g))
        IN  Return(r.g, r.f, "id")    \* line 180
    [] f.pc = "y_cur" ->              \* sync_user_messages, line 207
        Goto(g, [f EXCEPT !.scur = get_current_branch(g)],
             IF use_github THEN "y_fetch" ELSE "y_co")
    [] f.pc = "y_fetch" ->            \* line 211
        LET r == run_git_command(g, f, git_fetch(g, f.user))
        IN  IF r.raised THEN sync_return(r.g, r.f, FALSE) ELSE At(r, "y_co")
    [] f.pc = "y_co" ->               \* line 214
        LET r == run_git_command(g, f, git_checkout(g, UserBranch(f.user)))
        IN  IF r.raised THEN sync_return(r.g, r.f, FALSE) ELSE At(r, "y_copy")
    [] f.pc = "y_copy" ->             \* lines 217-221
        IF io_fails(f) THEN sync_return(g, Tick(f), FALSE)
        ELSE Goto([g EXCEPT !.wt = copy_to_pool(g, f.user)], Tick(f), "y_back")
    [] f.pc = "y_back" ->             \* line 224
        LET r == run_git_command(g, f, git_checkout(g, f.scur))
        IN  sync_return(r.g, r.f, ~r.raised)
    [] f.pc = "a_list" ->             \* sync_all_messages, lines 240-245
        LET r == run_git_command(g, f, git_query(g))
        IN  IF r.raised THEN Return(r.g, r.f, "False")
            ELSE Goto(r.g, [r.f EXCEPT !.todo = IF r.ok THEN Listing(g.remote_refs) ELSE <<>>], "a_next")
    [] f.pc = "a_next" ->             \* lines 248-251
        IF f.todo = <<>> THEN Return(g, f, "True")
        ELSE Goto(g, [f EXCEPT !.user = Head(f.todo), !.todo = Tail(f.todo)], "y_cur")
    [] OTHER -> [g |-> g, f |-> f]

\* a whole call: the steps in program order
RECURSIVE Run(_, _)
Run(g, f) == IF f.pc = "done" THEN [g |-> g, f |-> f]
             ELSE LET r == Step(g, f) IN Run(r.g, r.f)

\* ---------------------------------------------------------- specification
\* After GitManager.__init__ and UserBranchManager.__init__: one branch with
\* the initial commit and the commit of the empty active_users.json.
InitTree == [NoTree EXCEPT ![AU] = <<NoUsers>>]

\* ------------------------------------------------ sync_forks.py: the data
\* A message file of the fork synchronisation is a JSON dict; the keys that
\* matter are content, timestamp, source_repo and the key that names the
\* writer: 'author' (what the message store writes) or 'user' (what
\* generate_message_hash reads).  "" stands for a missing key.
MergeMessages ==
  {d \in [content : {"hi"}, author : Users \cup {""}, user : Users \cup {""},
          timestamp : {1}, source_repo : {""}] : (d.author = "") # (d.user = "")}

\* the peer URLs of forks_list.txt, in pieces: the local repository itself, a
\* fork whose name starts with the local repository's name, another user's
\* fork
GitHub == <<"https:", "/", "/", "github.com", "/">>
SelfUrl == GitHub \o <<"alice", "/", "bookchat">>
ArchiveUrl == GitHub \o <<"alice", "/", "bookchat", "-archive">>
OtherUrl == GitHub \o <<"bob", "/", "bookchat">>
ForkUrls == {SelfUrl, ArchiveUrl, OtherUrl}
\* the same, and the URLs of the two bookchat repositories as a browser
\* shows them, with a '/' at the end
PeerUrls == ForkUrls \cup {SelfUrl \o <<"/">>, OtherUrl \o <<"/">>}
\* GITHUB_REPO of .env
RepoName == <<"alice", "/", "bookchat">>

\* get_unique_repo_name(repo_url): parts[-2] + "_" + parts[-1] of the url
\* split at '/'
get_unique_repo_name(repo_url) ==
  LET S == {i \in 1..Len(repo_url) : repo_url[i] = "/"}
      k == CHOOSE i \in S : \A j \in S : j <= i
      B == S \ {k}
      j == IF B = {} THEN 0 ELSE CHOOSE i \in B : \A h \in B : h <= i
  IN  IF S = {} THEN repo_url
      ELSE SubSeq(repo_url, j + 1, k - 1) \o <<"_">>
             \o SubSeq(repo_url, k + 1, Len(repo_url))

RepoDirs == {get_unique_repo_name(u) : u \in PeerUrls}
\* base_dir.iterdir(), in name order
DirOrder == <<get_unique_repo_name(SelfUrl), get_unique_repo_name(ArchiveUrl),
              get_unique_repo_name(OtherUrl), get_unique_repo_name(SelfUrl \o <<"/">>)>>

\* generate_message_hash(message_data): sha256 of the JSON text of content,
\* user and timestamp; sha256 is taken to be injective, so the hash is the
\* triple itself
generate_message_hash(message_data) ==
  [content |-> message_data.content, user |-> message_data.user,
   timestamp |-> message_data.timestamp]

Hashes == {generate_message_hash(d) : d \in MergeMessages}

\* The name of a file of messages/: <date>_<hash>.json for n = 0,
\* <date>_<hash>_<n>.json for n > 0; n = -1 stands for a name of another
\* format (the date is a function of the hashed timestamp).
MaxSuffix == MaxMerges + 1
JsonNames == [hash : Hashes, n : -1..MaxSuffix]

\* generate_message_filename(message_data)
generate_message_filename(message_data) ==
  [hash |-> generate_message_hash(message_data), n |-> 0]

\* a file: absent, a JSON dict, or text that json.load cannot read
NoData == [content |-> "", author |-> "", user |-> "", timestamp |-> 0,
           source_repo |-> ""]
JsonFile(d) == <<[json |-> TRUE, data |-> d]>>
Unreadable == <<[json |-> FALSE, data |-> NoData]>>
NoJson == [n \in JsonNames |-> Absent]

\* cloned_repos/<d>: no directory, or a clone whose messages directory, when
\* the sparse checkout has produced it, lists some message files
NoDir == <<>>
CloneDir(has_messages, files) == <<[messages |-> has_messages, files |-> files]>>
NoClones == [d \in RepoDirs |-> NoDir]

MergeIdle == [op |-> "idle", runs |-> 0, fail |-> 0, lines |-> <<>>,
              repos |-> <<>>,
              current_repo |-> <<>>, peer |-> <<>>, synced |-> {},
              merged |-> FALSE]

\* --------------------------------------------- GitManager: pulling
\* __init__, lines 204-206.  Time is counted from the start of the server,
\* which is Epoch seconds after the time 0 of time.time(): the initial
\* last_pull_time = 0 is the time -Epoch.
pull_cooldown == 5
Epoch == 10
PullIdle == [op |-> "idle", at |-> 0, contacted |-> FALSE, ret |-> FALSE,
             since |-> -Epoch]

\* --------------------------------------------- git_sync.py: the data
\* two files of the repository and their codes in `git status --porcelain`:
\* committed and unchanged, changed, changed and staged, new and staged,
\* untracked; Away: no such file
SyncFiles == {"README.md", "test.txt"}
Clean == "  "
Away == ""
StatusCodes == {Clean, " M", "M ", "A ", "??", Away}
SyncIdle == [op |-> "idle", msg |-> "", fail |-> 0, raised |-> FALSE,
             trace |-> <<>>, before |-> [f \in SyncFiles |-> Clean],
             after |-> [f \in SyncFiles |-> Clean]]
NoSync ==
  /\ status = [f \in SyncFiles |-> IF f = "README.md" THEN Clean ELSE Away]
  /\ commits = <<>>
  /\ sync_last = SyncIdle

\* --------------------------------------------- storage.FileStorage: the data
\* src/storage/file_storage.py keeps a message as <uuid>.txt: the content,
\* the line '-- ' and one 'Key: value' line per key of the metadata.  A
\* 'Key: value' line is the three words <<key, ":", value>>.
Sep == <<"-- ">>
CfIds == 1..MaxCfMsgs
CfThreads == {1, 2}
CfContents == { << <<"hello">> >>, << <<"hello">>, <<"world">> >>,
                << <<"hello">>, Sep, <<"Author", ":", "mallory">> >>,
                << Sep, <<"Author", ":", "mallory">> >> }
\* the updates dictionaries, as sequences of <<key, value>> in insertion order
CfUpdates == { << <<"pinned", "true">> >>, << <<"edited", "true">> >>,
               << <<"author", "bob">> >>, << <<"Author", "bob">> >>,
               << <<"AUTHOR", "bob">> >>, << <<"content", "x">> >>,
               << <<"Content", "x">> >> }
CfIdle == [op |-> "idle", id |-> 0, ret |-> FALSE, calls |-> 0,
           author |-> "", content |-> None, timestamp |-> "",
           updates |-> <<>>, before |-> None, got |-> None]
CfNoCall == [pc |-> "idle", id |-> 0, updates |-> <<>>, content |-> None,
             metadata |-> <<>>, ret |-> FALSE]
NoCodec ==
  /\ cf_files = [i \in CfIds |-> Absent]
  /\ cf_tmp = [i \in CfIds |-> Absent]
  /\ cf_calls = [t \in CfThreads |-> CfNoCall]
  /\ cf_last = CfIdle

\* --------------------------------------------- the pin stores
\* src/storage: GitStorage keeps the pins in pinned_messages.json, a
\* dictionary from message id to pin; SQLiteStorage keeps them as rows of the
\* table pinned_messages
PinIds == {"m1", "m2"}
NoPin == [pinned_at |-> -1, pinned_by |-> ""]
NoRows == [i \in PinIds |-> -1]
PinIdle == [op |-> "idle", id |-> "", by |-> "", at |-> 0, ret |-> FALSE,
            exists |-> FALSE, pinned |-> FALSE,
            data |-> [i \in PinIds |-> NoPin], rows |-> <<>>, flags |-> NoRows]

\* GitStorage.init_storage, lines 73-77, and the schema SQLiteStorage.
\* init_storage loads: no pins; the messages are the ones saved so far.  The
\* schema file is not part of the sources, so the table is taken both with
\* and without a uniqueness constraint on message_id.
NoPins(class, files, flags, unique) ==
  /\ backend = class
  /\ messages_dir = files
  /\ pinned_data = [i \in PinIds |-> NoPin]
  /\ messages_table = flags
  /\ pinned_messages = <<>>
  /\ unique_pins = unique
  /\ pin_last = PinIdle

Summary(f) == [f EXCEPT !.F = {}, !.n = 0, !.pc = "done", !.todo = <<>>,
                        !.content = "", !.scur = Main]

InitStores ==
  /\ test_mode \in BOOLEAN
  /\ use_github \in BOOLEAN
  /\ ~(test_mode /\ use_github)      \* git_manager.py, line 200
  /\ head = Main
  /\ branches = {Main}
  /\ tree = [b \in AllBranches |-> IF b = Main THEN InitTree ELSE NoTree]
  /\ index = InitTree
  /\ wt = InitTree
  /\ remote_refs = {}
  /\ log = [b \in AllBranches |-> IF b = Main THEN {AU} ELSE {}]
  /\ nextId = 1
  /\ last = Summary(IdleFrame)
  /\ origin = Main
  /\ threads = [t \in Threads |-> IdleFrame]
  /\ failures = 0
  /\ saved = {}
  /\ fs = NoFiles
  /\ fs_ids = <<>>
  /\ fs_last = FsIdle
  /\ gs = NoGsFiles
  /\ gs_head = NoGsFiles
  /\ gs_ids = <<>>
  /\ gs_last = GsIdle

Init ==
  /\ InitStores
  /\ main_messages = NoJson
  /\ cloned = NoClones
  /\ merge_last = MergeIdle
  /\ now = 0 /\ last_pull_time = -Epoch /\ pull_last = PullIdle
  /\ NoPins("GitStorage", {}, NoRows, FALSE)
  /\ NoSync
  /\ NoCodec

\* The environment picks the positions F at which commands of the call fail;
\* every picked position is one the call reaches.
RECURSIVE UpTo(_, _)
UpTo(k, b) == IF b <= 0 THEN {{}}
              ELSE LET S == UpTo(k, b - 1) IN S \cup {s \cup {n} : s \in S, n \in 1..k}
FailSets(k) == UpTo(k, MaxFailures - failures)

\* save_message, line 180: the id goes back to the client
Returned(f) == IF f.op = "save" /\ f.ret = "id"
               THEN saved \cup {MsgPath(f.user, f.id)} ELSE saved

Call(op, u, c, i, F) ==
  LET r == Run(Repo, NewFrame(op, u, c, i, F, head))
  IN  /\ F \subseteq 1..r.f.n
      /\ SetRepo(r.g)
      /\ last' = Summary(r.f)
      /\ saved' = Returned(r.f)
      /\ failures' = failures + Cardinality(F)

\* UserBranchManager.save_message(message), at most k times
SaveMessageUpTo(k) ==
  /\ nextId <= k
  /\ \E u \in Users, c \in Contents \cup {NoKey}, F \in FailSets(17) :
       Call("save", u, c, nextId, F)
  /\ nextId' = nextId + 1
  /\ UNCHANGED <<test_mode, use_github, origin, threads>>
  /\ UNCHANGED <<storevars, gitvars, sidevars>>

SaveMessage == SaveMessageUpTo(MaxMsgs)

\* UserBranchManager.ensure_user_branch(username)
EnsureUserBranch ==
  /\ \E u \in Users, F \in FailSets(9) : Call("ensure", u, "", 0, F)
  /\ origin' = head'
  /\ UNCHANGED <<test_mode, use_github, nextId, threads>>
  /\ UNCHANGED <<storevars, gitvars, sidevars>>

\* UserBranchManager.sync_user_messages(username)
SyncUserMessages ==
  /\ \E u \in Users, F \in FailSets(4) : Call("sync_user", u, "", 0, F)
  /\ origin' = head'
  /\ UNCHANGED <<test_mode, use_github, nextId, threads>>
  /\ UNCHANGED <<storevars, gitvars, sidevars>>

\* UserBranchManager.sync_all_messages()
SyncAllMessages ==
  /\ \E F \in FailSets(1 + 4 * Cardinality(Users)) : Call("sync_all", "", "", 0, F)
  /\ origin' = head'
  /\ UNCHANGED <<test_mode, use_github, nextId, threads>>
  /\ UNCHANGED <<storevars, gitvars, sidevars>>

\* every pool entry is deleted (messages/*.txt unlinked)
ClearPool ==
  /\ \E p \in PoolPaths : wt[p] # Absent
  /\ wt' = [p \in Paths |-> IF p.kind = "pool" THEN Absent ELSE wt[p]]
  /\ last' = Summary([IdleFrame EXCEPT !.op = "clear", !.head0 = head])
  /\ origin' = head
  /\ UNCHANGED <<head, branches, tree, index, remote_refs, log, test_mode,
                 use_github, nextId, threads, failures, saved>>
  /\ UNCHANGED <<storevars, gitvars, sidevars>>

Next ==
  \/ SaveMessage
  \/ EnsureUserBranch
  \/ SyncUserMessages
  \/ SyncAllMessages
  \/ ClearPool

Spec == Init /\ [][Next]_vars

\* The pool is emptied and rebuilt from one user's branch.
SaveFew == SaveMessageUpTo(MaxRebuildMsgs)

NextRebuild ==
  \/ SaveFew
  \/ ClearPool
  \/ SyncUserMessages

SpecRebuild == Init /\ [][NextRebuild]_vars

\* A sequence of save_message calls and nothing else; each call meets at most
\* one outside failure
SaveSequence ==
  /\ nextId <= MaxMsgs
  /\ \E u \in Users, c \in Contents \cup {NoKey},
        F \in {E \in SUBSET (1..17) : Cardinality(E) <= 1} :
       Call("save", u, c, nextId, F)
  /\ nextId' = nextId + 1
  /\ UNCHANGED <<test_mode, use_github, origin, threads>>
  /\ UNCHANGED <<storevars, gitvars, sidevars>>

\* get_active_users(): the values of the 'users' dict, here the message_count
\* of every user name (-1: not listed)
get_active_users(g) == load_active_users(g)

SpecSaves == Init /\ [][SaveSequence]_vars

\* ------------------------------------------------- the threaded HTTP server
\* socketserver.ThreadingTCPServer: every request runs save_message on its
\* own thread, and no lock is taken; the steps of the calls interleave.  No
\* outside failure is injected here.
ThreadSave(t) ==
  /\ threads[t].pc = "idle"
  /\ nextId <= MaxMsgs
  /\ \E c \in Contents :
       threads' = [threads EXCEPT ![t] = NewFrame("save", AuthorOf(t), c, nextId, {}, head)]
  /\ nextId' = nextId + 1
  /\ UNCHANGED <<head, branches, tree, index, wt, remote_refs, log, test_mode,
                 use_github, last, origin, failures, saved>>
  /\ UNCHANGED <<storevars, gitvars, sidevars>>

ThreadStep(t) ==
  /\ threads[t].pc \notin {"idle", "done"}
  /\ LET r == Step(Repo, threads[t])
     IN  /\ SetRepo(r.g)
         /\ saved' = Returned(r.f)
         /\ IF r.f.pc = "done"
            THEN last' = Summary(r.f) /\ threads' = [threads EXCEPT ![t] = IdleFrame]
            ELSE last' = last /\ threads' = [threads EXCEPT ![t] = [r.f EXCEPT !.n = 0]]
  /\ UNCHANGED <<test_mode, use_github, nextId, origin, failures>>
  /\ UNCHANGED <<storevars, gitvars, sidevars>>

NextConc == \E t \in Threads : ThreadSave(t) \/ ThreadStep(t)

\* the server runs outside test mode; save_message does not read use_github
InitConc == Init /\ ~test_mode /\ ~use_github

SpecConc == InitConc /\ [][NextConc]_vars

TypeOK ==
  /\ head \in AllBranches
  /\ branches \subseteq AllBranches
  /\ Main \in branches
  /\ remote_refs \subseteq Users
  /\ nextId \in 1..(MaxMsgs + 1)

\* -------------------------------------------------------- user names
\* branch_utils.ensure_branch, line 106
ValidBranchUsername(u) ==
  LET cs == UsernameChars[u]
      rest == SelectSeq(cs, LAMBDA c : c # "_")     \* username.replace('_', '')
  IN  /\ Len(cs) > 0
      /\ Len(rest) > 0 /\ \A k \in 1..Len(rest) : rest[k] \in Alnum

\* branch_utils.switch_branch(branch_name, create): git checkout [-b]
\* <branch_name>; GitError when git exits non-zero
switch_branch(g, b, create) ==
  LET r == IF create THEN git_checkout_b(g, b) ELSE git_checkout(g, b)
  IN  [ret |-> IF r.ok THEN "None" ELSE "GitError", g |-> r.g]

\* branch_utils.ensure_branch(username): ValueError for a refused name;
\* otherwise user/<username> is created if missing and checked out.  fail:
\* a git command exits non-zero (GitError).
ensure_branch(g, u, fail) ==
  IF ~ValidBranchUsername(u) THEN [ret |-> "ValueError", g |-> g]
  ELSE IF fail THEN [ret |-> "GitError", g |-> g]
  ELSE switch_branch(g, UserBranch(u), UserBranch(u) \notin g.branches)

\* e_fail is "outside" when the failure of the call was injected
EnsureBranch ==
  /\ \E u \in Names, fail \in BOOLEAN :
       LET r == ensure_branch(Repo, u, fail)
       IN  /\ SetRepo(r.g)
           /\ last' = Summary([NewFrame("ensure_branch", u, "", 0, {}, head)
                                 EXCEPT !.ret = r.ret,
                                        !.e_fail = IF fail /\ r.ret = "GitError"
                                                   THEN "outside" ELSE ""])
  /\ origin' = head'
  /\ UNCHANGED <<test_mode, use_github, nextId, threads, failures, saved>>
  /\ UNCHANGED <<storevars, gitvars, sidevars>>

\* UserBranchManager.ensure_user_branch(username) with any name
EnsureName ==
  /\ \E u \in Names, F \in FailSets(9) : Call("ensure", u, "", 0, F)
  /\ origin' = head'
  /\ UNCHANGED <<test_mode, use_github, nextId, threads>>
  /\ UNCHANGED <<storevars, gitvars, sidevars>>

\* branch_utils.switch_branch(user/<u>, create); existed: the branch was
\* there at the call
SwitchBranch ==
  /\ \E u \in Users, create \in BOOLEAN :
       LET r == switch_branch(Repo, UserBranch(u), create)
       IN  /\ SetRepo(r.g)
           /\ last' = Summary([NewFrame(IF create THEN "create_branch"
                                        ELSE "switch_branch", u, "", 0, {}, head)
                                 EXCEPT !.ret = r.ret,
                                        !.existed = UserBranch(u) \in branches])
  /\ origin' = head'
  /\ UNCHANGED <<test_mode, use_github, nextId, threads, failures, saved>>
  /\ UNCHANGED <<storevars, gitvars, sidevars>>

NextNames == EnsureName \/ EnsureBranch \/ SwitchBranch

SpecNames == Init /\ [][NextNames]_vars

\* --------------------------------------------------------- FileStorage
\* FileStorage.save_message(message); the open() of line 119 may fail
save_message(files, m, fail) ==
  LET id == message_id(files, m.timestamp)
  IN  IF fail THEN [ret |-> None, files |-> files]
      ELSE [ret |-> <<id>>, files |-> [files EXCEPT ![id] = FsEncode(id, m)]]

FsCall(op, m, r, success) ==
  /\ Len(fs_ids) < MaxFsMsgs
  /\ fs' = r.files
  /\ fs_ids' = IF r.ret = None THEN fs_ids ELSE fs_ids \o r.ret
  /\ fs_last' = [op |-> op, ret |-> r.ret, msg |-> m, success |-> success,
                  before |-> Count(fs)]
  /\ UNCHANGED <<branchvars, gitvars, sidevars>>

FsSaveMessage ==
  \E a \in Users, c \in FsContents, ts \in Timestamps, fail \in BOOLEAN :
    LET m == [author |-> a, content |-> c, timestamp |-> ts]
    IN  FsCall("save", m, save_message(fs, m, fail), TRUE)

\* handle_post_message, lines 127-130: the response once create_message has
\* returned; id is what storage.save_message returned
post_response(id) == [success |-> TRUE, id |-> id]

\* MessageHandler.handle_post_message(request) -> create_message ->
\* storage.save_message, which catches what its body raises (fail) and
\* returns None; the response is success: True unless a call raised
PostMessage ==
  \E a \in Users, c \in {Empty, Blank, << <<"hello">> >>}, ts \in Timestamps,
     fail \in BOOLEAN :
    LET m == [author |-> a, content |-> strip(c), timestamp |-> ts]
        r == save_message(fs, m, fail)
    IN  FsCall("post", m, r, post_response(r.ret).success)

NextFile == FsSaveMessage \/ PostMessage

InitFile == Init /\ ~test_mode /\ ~use_github

SpecFile == InitFile /\ [][NextFile]_vars

\* files that get_messages cannot decode: no ID line, no Author line, no
\* content at all, bytes that are not UTF-8
CorruptTexts == { << <<"Content:", "hello">>, <<"Author:", "alice">> >>,
                  << <<"ID:", "x">>, <<"Content:", "hello">> >>,
                  << <<"ID:", "x">>, <<"Author:", "alice">> >>,
                  Garbled }

\* outside the server (a pull, an editor) a file that cannot be decoded
\* appears in the messages directory; one such file is enough
Tamper ==
  /\ \A id \in FsIds : fs[id] \notin CorruptTexts
  /\ \E id \in FsIds, t \in CorruptTexts :
       fs[id] = Absent /\ fs' = [fs EXCEPT ![id] = t]
  /\ UNCHANGED <<fs_ids, fs_last, branchvars, gitvars, sidevars>>

SpecCorrupt == InitFile /\ [][NextFile \/ Tamper]_vars

\* ---------------------------------------------------------- GitStorage
\* GitStorage.save_message(message).  fail names the step the environment
\* makes fail: the open of line 123, the git commit of line 150 or a command
\* of sync_changes_to_github.  git commit also fails when the file equals
\* the committed one.
GsSave(files, committed, m, fail) ==
  LET id == filename(m)
      written == [files EXCEPT ![id] = formatted_message(m)]
  IN  IF fail = "open" THEN [ret |-> None, files |-> files, head |-> committed]
      ELSE IF fail = "commit" \/ written[id] = committed[id]
      THEN [ret |-> None, files |-> written, head |-> committed]
      ELSE [ret |-> IF fail = "sync" THEN None ELSE <<id>>,
            files |-> written,
            head |-> [committed EXCEPT ![id] = written[id]]]

GsSaveMessage ==
  /\ gs_last.calls < MaxGsMsgs
  /\ \E a \in Users, c \in GsContents, ts \in Timestamps,
        fail \in {"none", "open", "commit"} \cup (IF use_github THEN {"sync"} ELSE {}) :
       LET m == [author |-> a, content |-> c, timestamp |-> ts]
           r == GsSave(gs, gs_head, m, fail)
       IN  /\ gs' = r.files
           /\ gs_head' = r.head
           /\ gs_ids' = IF r.ret = None THEN gs_ids ELSE gs_ids \o r.ret
           /\ gs_last' = [op |-> "save", ret |-> r.ret, before |-> gs_head,
                          calls |-> gs_last.calls + 1, fail |-> fail]
  /\ UNCHANGED <<branchvars, storevars, sidevars>>

NextGit == GsSaveMessage

InitGit == Init /\ ~test_mode

SpecGit == InitGit /\ [][NextGit]_vars

\* --------------------------------------------- sync_forks.py: the merge
\* lines 164-169 and 225-230: the first of <base>_1, <base>_2, ... that does
\* not exist
FreePath(files, name) ==
  LET i == CHOOSE i \in 1..MaxSuffix :
             /\ files[[name EXCEPT !.n = i]] = Absent
             /\ \A j \in 1..(i - 1) : files[[name EXCEPT !.n = j]] # Absent
  IN  [name EXCEPT !.n = i]

\* lines 146-179, for one file of the main directory: st.files is the
\* directory, st.seen the hashes seen so far
process_existing(st, existing_file) ==
  IF st.files[existing_file] = Absent \/ ~st.files[existing_file][1].json
  THEN st                                        \* open / json.load raises
  ELSE
    LET message_data == st.files[existing_file][1].data
        new_path == generate_message_filename(message_data)
        message_hash == generate_message_hash(message_data)
        moved(to) == [st.files EXCEPT ![to] = st.files[existing_file],
                                      ![existing_file] = Absent]
        seen == st.seen \cup {message_hash}
    IN  IF existing_file = new_path
        THEN [st EXCEPT !.seen = seen]
        ELSE IF st.files[new_path] = Absent
        THEN [st EXCEPT !.files = moved(new_path), !.seen = seen]
        ELSE IF ~st.files[new_path][1].json
        THEN st                                  \* json.load(new_path) raises
        ELSE IF generate_message_hash(st.files[new_path][1].data) = message_hash
        THEN [st EXCEPT !.files[existing_file] = Absent, !.seen = seen]
        ELSE [st EXCEPT !.files = moved(FreePath(st.files, new_path)),
                        !.seen = seen]

RECURSIVE process_all_existing(_, _, _)
process_all_existing(st, existing_files, k) ==
  IF k > Len(existing_files) THEN st
  ELSE process_all_existing(process_existing(st, existing_files[k]),
                            existing_files, k + 1)

\* lines 202-241, for one message file of a peer.  st.writes counts the
\* files opened for writing; the write number st.fail fails, either at
\* open() (no file) or in json.dump (a truncated file is left)
copy_message(st, repo_dir, message_data) ==
  LET message_hash == generate_message_hash(message_data)
      data == [message_data EXCEPT !.source_repo = repo_dir]
      new_path == generate_message_filename(data)
      target_path == IF st.files[new_path] # Absent
                     THEN FreePath(st.files, new_path) ELSE new_path
  IN  IF message_hash \in st.seen THEN st
      ELSE IF st.writes + 1 = st.fail
      THEN [st EXCEPT !.writes = @ + 1,
                      !.files[target_path] =
                         IF st.truncate THEN Unreadable ELSE @]
      ELSE [st EXCEPT !.writes = @ + 1,
                      !.files[target_path] = JsonFile(data),
                      !.seen = @ \cup {message_hash}]

RECURSIVE copy_messages(_, _, _, _)
copy_messages(st, repo_dir, message_files, k) ==
  IF k > Len(message_files) THEN st
  ELSE copy_messages(copy_message(st, repo_dir, message_files[k]),
                     repo_dir, message_files, k + 1)

\* lines 186-241: every directory of cloned_repos that has a messages
\* directory
RECURSIVE copy_repos(_, _, _)
copy_repos(st, dirs, k) ==
  IF k > Len(DirOrder) THEN st
  ELSE LET d == DirOrder[k]
       IN  IF dirs[d] = NoDir \/ ~dirs[d][1].messages
           THEN copy_repos(st, dirs, k + 1)
           ELSE copy_repos(copy_messages(st, d, dirs[d][1].files, 1), dirs, k + 1)

\* copy_messages_to_main(base_dir): the main directory afterwards.
\* existing_files is the listing of messages/*.json, in the order glob gives
copy_messages_to_main(files, dirs, existing_files, fail, truncate) ==
  LET st0 == [files |-> files, seen |-> {}, writes |-> 0, fail |-> fail,
              truncate |-> truncate]
  IN  copy_repos(process_all_existing(st0, existing_files, 1), dirs, 1)

\* the listings glob can give for a directory
Present(files) == {n \in JsonNames : files[n] # Absent}
Listings(files) ==
  {ls \in [1..Cardinality(Present(files)) -> Present(files)] :
     \A i, j \in DOMAIN ls : i # j => ls[i] # ls[j]}

\* what a directory holds: the (content, author, timestamp) of its readable
\* files
Triple(d) == [content |-> d.content, author |-> d.author,
              timestamp |-> d.timestamp]
Held(files) == {Triple(files[n][1].data) : n \in {m \in Present(files) : files[m][1].json}}
PeerTriples(dirs) ==
  UNION {{Triple(dirs[d][1].files[k]) : k \in 1..Len(dirs[d][1].files)} :
           d \in {e \in RepoDirs : dirs[e] # NoDir /\ dirs[e][1].messages}}

\* one run of copy_messages_to_main over the cloned peers as they are
CopyMessagesToMain ==
  /\ merge_last.runs < MaxMerges
  /\ \E existing_files \in Listings(main_messages),
        fail \in 0..(IF failures < MaxFailures THEN 2 * MaxPeerFiles ELSE 0),
        truncate \in BOOLEAN :
       LET st == copy_messages_to_main(main_messages, cloned, existing_files,
                                       fail, truncate)
           failed == fail \in 1..st.writes
       IN  /\ fail = 0 \/ failed
           /\ failed \/ truncate
           /\ main_messages' = st.files
           /\ merge_last' = [MergeIdle EXCEPT !.op = "merge",
                                              !.runs = merge_last.runs + 1,
                                              !.fail = fail]
           /\ failures' = failures + (IF failed THEN 1 ELSE 0)
  /\ UNCHANGED cloned
  /\ UNCHANGED <<head, branches, tree, index, wt, remote_refs, log, test_mode,
                 use_github, nextId, last, origin, threads, saved>>
  /\ UNCHANGED <<storevars, gitvars, pullvars, pinvars, syncvars, codecvars>>

\* the peers as some earlier synchronisation left them, and a main directory
\* that is empty or holds one message under a name of another format
InitMerge ==
  /\ InitStores /\ ~test_mode /\ ~use_github
  /\ \E fs1, fs2 \in UNION {[1..k -> MergeMessages] : k \in 0..MaxPeerFiles} :
       cloned = [NoClones EXCEPT ![get_unique_repo_name(ArchiveUrl)] = CloneDir(TRUE, fs1),
                                 ![get_unique_repo_name(OtherUrl)] = CloneDir(TRUE, fs2)]
  /\ \/ main_messages = NoJson
     \/ \E d \in MergeMessages :
          main_messages = [NoJson EXCEPT ![[hash |-> generate_message_hash(d), n |-> -1]] = JsonFile(d)]
  /\ merge_last = MergeIdle
  /\ now = 0 /\ last_pull_time = -Epoch /\ pull_last = PullIdle
  /\ NoPins("GitStorage", {}, NoRows, FALSE)
  /\ NoSync
  /\ NoCodec

SpecMerge == InitMerge /\ [][CopyMessagesToMain]_vars

\* ------------------------------------- sync_forks.py: cloning the peers
\* what the messages directory of the repository behind a URL lists
Upstream(repo_url) ==
  <<[content |-> "hi", author |-> repo_url[Len(GitHub) + 1], user |-> "", timestamp |-> 1,
     source_repo |-> ""]>>

\* `current_repo not in repo`: the text occurs somewhere in the line
Contains(text, line) ==
  \E i \in 0..(Len(line) - Len(text)) : SubSeq(line, i + 1, i + Len(text)) = text

\* clone_or_update_repo(repo_url, "messages"); the git command fail (1: clone
\* or pull, 2: config, 3: checkout, 0: none) exits non-zero, which run_command
\* logs.  A failed clone leaves no directory, and the next command, run with
\* cwd=local_path, raises FileNotFoundError, which run_command does not catch.
clone_or_update_repo(dirs, repo_url, fail) ==
  LET d == get_unique_repo_name(repo_url)
  IN  IF dirs[d] = NoDir
      THEN IF fail = 1 THEN [dirs |-> dirs, raised |-> TRUE]
           ELSE [dirs |-> [dirs EXCEPT ![d] = CloneDir(fail # 3, Upstream(repo_url))],
                 raised |-> FALSE]
      ELSE [dirs |-> IF fail \in {1, 3} THEN dirs
                     ELSE [dirs EXCEPT ![d] = CloneDir(TRUE, dirs[d][1].files)],
            raised |-> FALSE]

\* the loop over repos, lines 261-262 of main (an exception ends it) and
\* lines 471-475 of GitManager.sync_forks (an exception is logged); st.synced
\* are the URLs whose call returned
RECURSIVE sync_repos(_, _, _, _, _)
sync_repos(st, repos, k, failing, guarded) ==
  IF k > Len(repos) THEN st
  ELSE LET r == clone_or_update_repo(st.dirs, repos[k],
                                     IF k = failing.peer THEN failing.cmd ELSE 0)
       IN  IF r.raised
           THEN IF guarded THEN sync_repos(st, repos, k + 1, failing, guarded)
                ELSE [st EXCEPT !.raised = TRUE]
           ELSE sync_repos([st EXCEPT !.dirs = r.dirs,
                                      !.synced = @ \cup {repos[k]}],
                           repos, k + 1, failing, guarded)

\* One fork synchronisation: main() of sync_forks.py (op = "main") or
\* GitManager.sync_forks() (op = "sync_forks").  lines is forks_list.txt,
\* current_repo is GITHUB_REPO (<<>>: not set).
SyncForks ==
  /\ merge_last.runs < MaxSyncs
  /\ \E op \in {"main", "sync_forks"},
        lines \in {l \in [1..Cardinality(ForkUrls) -> ForkUrls] :
                      \A i, j \in DOMAIN l : i # j => l[i] # l[j]},
        current_repo \in {<<>>, RepoName},
        peer \in 0..(IF failures < MaxFailures THEN Cardinality(ForkUrls) ELSE 0),
        cmd \in 1..3,
        existing_files \in Listings(main_messages) :
       LET repos == IF current_repo # <<>>
                    THEN SelectSeq(lines, LAMBDA repo : ~Contains(current_repo, repo))
                    ELSE lines
           st == sync_repos([dirs |-> cloned, synced |-> {}, raised |-> FALSE],
                            repos, 1, [peer |-> peer, cmd |-> cmd],
                            op = "sync_forks")
           merged == op = "main" /\ ~st.raised
       IN  /\ peer \in 0..Len(repos)
           /\ peer = 0 => cmd = 1
           /\ (peer # 0 /\ cmd = 2) => cloned[get_unique_repo_name(repos[peer])] = NoDir
           /\ cloned' = st.dirs
           /\ main_messages' =
                IF merged
                THEN copy_messages_to_main(main_messages, st.dirs, existing_files,
                                           0, FALSE).files
                ELSE main_messages
           /\ merge_last' = [op |-> op, runs |-> merge_last.runs + 1,
                             fail |-> IF peer = 0 THEN 0 ELSE cmd,
                             lines |-> lines, repos |-> repos,
                             current_repo |-> current_repo,
                             peer |-> IF peer = 0 THEN <<>> ELSE repos[peer],
                             synced |-> st.synced, merged |-> merged]
           /\ failures' = failures + (IF peer = 0 THEN 0 ELSE 1)
  /\ UNCHANGED <<head, branches, tree, index, wt, remote_refs, log, test_mode,
                 use_github, nextId, last, origin, threads, saved>>
  /\ UNCHANGED <<storevars, gitvars, pullvars, pinvars, syncvars, codecvars>>

SpecForks == Init /\ [][SyncForks]_vars

\* clone_or_update_repo(repo_url, "messages") for one line of forks_list.txt
CloneOrUpdateRepo ==
  \E repo_url \in PeerUrls, fail \in 0..3 :
    LET r == clone_or_update_repo(cloned, repo_url, fail)
    IN  /\ cloned' = r.dirs
        /\ merge_last' = [MergeIdle EXCEPT !.op = "clone", !.fail = fail,
                                            !.peer = repo_url,
                                            !.synced = IF r.raised THEN {} ELSE {repo_url}]
        /\ UNCHANGED <<main_messages, branchvars, storevars, gitvars, pullvars,
                       pinvars, syncvars, codecvars>>

SpecClone == Init /\ [][CloneOrUpdateRepo]_vars

\* --------------------------------------------- GitManager: pulling
\* time passes between two calls
TimePasses ==
  /\ now < MaxTime
  /\ now' = now + 1
  /\ UNCHANGED <<branchvars, storevars, gitvars, forkvars, last_pull_time,
                 pull_last, pinvars, syncvars, codecvars>>

\* GitManager.pull_from_github().  behind: origin/main has commits HEAD has
\* not; fail: the fetch (1) or the pull --rebase (2) exits non-zero (0: none);
\* lines: forks_list.txt (<<>>: no such file).  pull_last.since is the time of
\* the latest earlier call that contacted the remote.
PullFromGithub ==
  \E behind \in BOOLEAN,
     fail \in 0..(IF failures < MaxFailures THEN 2 ELSE 0),
     lines \in {<<>>, <<OtherUrl>>} :
    LET cooling == now - last_pull_time < pull_cooldown
        contacted == use_github /\ ~cooling
        pulled == contacted /\ fail # 1 /\ behind
        failed == (contacted /\ fail = 1) \/ (pulled /\ fail = 2)
        ret == pulled /\ fail # 2
    IN  /\ fail # 0 => failed
        /\ cloned' = IF contacted
                      THEN sync_repos([dirs |-> cloned, synced |-> {}, raised |-> FALSE],
                                      lines, 1, [peer |-> 0, cmd |-> 0], TRUE).dirs
                      ELSE cloned
        /\ last_pull_time' = IF ret THEN now ELSE last_pull_time
        /\ pull_last' = [op |-> "pull", at |-> now, contacted |-> contacted,
                         ret |-> ret,
                         since |-> IF pull_last.contacted THEN pull_last.at
                                   ELSE pull_last.since]
        /\ failures' = failures + (IF failed THEN 1 ELSE 0)
        /\ UNCHANGED <<head, branches, tree, index, wt, remote_refs, log,
                       test_mode, use_github, nextId, last, origin, threads,
                       saved, now, main_messages, merge_last>>
        /\ UNCHANGED <<storevars, gitvars, pinvars, syncvars, codecvars>>

SpecPull == Init /\ [][TimePasses \/ PullFromGithub]_vars

\* --------------------------------------------- the pin stores
\* get_message_by_id without the test of lines 313-316
get_message_by_id_any(files, mid) == TRUE

\* GitStorage.get_message_by_id(), lines 302-329: the file messages/<id> has
\* to exist; a file that exists is taken to be one read_message parses
get_message_by_id(files, mid) == mid \in files

\* what a call reports: the stores as the call found them
PinCall(op, id, by, ret) ==
  [op |-> op, id |-> id, by |-> by, at |-> now, ret |-> ret,
   exists |-> IF backend = "GitStorage" THEN id \in messages_dir
              ELSE messages_table[id] # -1,
   pinned |-> IF backend = "GitStorage" THEN pinned_data[id] # NoPin
              ELSE \E k \in 1..Len(pinned_messages) :
                     pinned_messages[k].message_id = id,
   data |-> pinned_data, rows |-> pinned_messages, flags |-> messages_table]

\* every call reads a later clock than the call before it
PinClock ==
  /\ now < MaxPinCalls
  /\ now' = now + 1
  /\ UNCHANGED <<branchvars, storevars, gitvars, forkvars, last_pull_time,
                 pull_last, backend, messages_dir, unique_pins, syncvars,
                 codecvars>>

\* GitStorage.pin_message(message_id, pinned_by)
GitPinMessage ==
  \E mid \in PinIds, pinned_by \in Users :
    LET message == get_message_by_id(messages_dir, mid)
    IN  /\ backend = "GitStorage"
        /\ PinClock
        /\ pinned_data' =
             IF message
             THEN [pinned_data EXCEPT ![mid] =
                     [pinned_at |-> now, pinned_by |-> pinned_by]]
             ELSE pinned_data
        /\ pin_last' = PinCall("pin", mid, pinned_by, message)
        /\ UNCHANGED <<messages_table, pinned_messages>>

\* GitStorage.unpin_message(message_id, unpinned_by)
GitUnpinMessage ==
  \E mid \in PinIds, unpinned_by \in Users :
    LET found == pinned_data[mid] # NoPin
    IN  /\ backend = "GitStorage"
        /\ PinClock
        /\ pinned_data' = [pinned_data EXCEPT ![mid] = NoPin]
        /\ pin_last' = PinCall("unpin", mid, unpinned_by, found)
        /\ UNCHANGED <<messages_table, pinned_messages>>

\* SQLiteStorage.pin_message(message_id, pinned_by).  An INSERT that breaks
\* the uniqueness of message_id raises sqlite3.IntegrityError: the
\* transaction is rolled back and the call returns False.
SQLitePinMessage ==
  \E mid \in PinIds, pinned_by \in Users :
    LET message == messages_table[mid] # -1
        clash == /\ unique_pins
                 /\ \E k \in 1..Len(pinned_messages) :
                      pinned_messages[k].message_id = mid
        ret == message /\ ~clash
    IN  /\ backend = "SQLiteStorage"
        /\ PinClock
        /\ pinned_messages' =
             IF ret
             THEN Append(pinned_messages,
                         [message_id |-> mid, pinned_by |-> pinned_by,
                          pinned_at |-> now])
             ELSE pinned_messages
        /\ messages_table' =
             IF ret THEN [messages_table EXCEPT ![mid] = 1]
             ELSE messages_table
        /\ pin_last' = PinCall("pin", mid, pinned_by, ret)
        /\ UNCHANGED pinned_data

\* SQLiteStorage.unpin_message(message_id, unpinned_by)
SQLiteUnpinMessage ==
  \E mid \in PinIds, unpinned_by \in Users :
    /\ backend = "SQLiteStorage"
    /\ PinClock
    /\ pinned_messages' =
         SelectSeq(pinned_messages, LAMBDA row : row.message_id # mid)
    /\ messages_table' =
         IF messages_table[mid] # -1
         THEN [messages_table EXCEPT ![mid] = 0]
         ELSE messages_table
    /\ pin_last' = PinCall("unpin", mid, unpinned_by, TRUE)
    /\ UNCHANGED pinned_data

\* either class, over any set of saved messages
InitPins ==
  /\ InitStores /\ ~test_mode /\ ~use_github
  /\ main_messages = NoJson
  /\ cloned = NoClones
  /\ merge_last = MergeIdle
  /\ now = 0 /\ last_pull_time = -Epoch /\ pull_last = PullIdle
  /\ NoSync
  /\ NoCodec
  /\ \/ \E files \in SUBSET PinIds : NoPins("GitStorage", files, NoRows, FALSE)
     \/ \E ids \in SUBSET PinIds, unique \in BOOLEAN :
          NoPins("SQLiteStorage", {}, [i \in PinIds |-> IF i \in ids THEN 0 ELSE -1],
                 unique)

SpecPins ==
  InitPins /\ [][GitPinMessage \/ GitUnpinMessage \/ SQLitePinMessage
                \/ SQLiteUnpinMessage]_vars

\* --------------------------------------------- git_sync.py
\* get_modified_files(): the files of the status lines whose code is not
\* '??'.  sync_repository only reads whether there are any.
get_modified_files(st) == {f \in SyncFiles : st[f] \notin {Clean, Away, "??"}}

\* `git add .` followed by `git commit`: every change of the working tree,
\* untracked files too, is in the commit
commit_all(st) == [f \in SyncFiles |-> IF st[f] = Away THEN Away ELSE Clean]

\* sync_repository(commit_msg).  fail: the command that exits non-zero
\* (1: status, 2: add, 3: commit, 4: pull, 5: push; 0: none); a command that
\* fails raises SyncError and ends the call.
sync_repository(st, commit_msg, fail) ==
  LET modified == get_modified_files(st)
      steps == <<"status">>
                 \o (IF modified # {} THEN <<"add", "commit">> ELSE <<>>)
                 \o <<"pull", "push">>
      codes == [c \in {"status", "add", "commit", "pull", "push"} |->
                  CASE c = "status" -> 1 [] c = "add" -> 2 [] c = "commit" -> 3
                    [] c = "pull" -> 4 [] OTHER -> 5]
      K == {k \in 1..Len(steps) : codes[steps[k]] = fail}
      stop == IF K = {} THEN Len(steps) + 1 ELSE CHOOSE k \in K : TRUE
      ran == SubSeq(steps, 1, stop - 1)
      has(c) == \E k \in 1..Len(ran) : ran[k] = c
      staged == [f \in SyncFiles |->
                   CASE st[f] = " M" -> "M " [] st[f] = "??" -> "A "
                     [] OTHER -> st[f]]
  IN  [trace |-> ran,
       raised |-> K # {},
       reached |-> fail = 0 \/ K # {},
       status |-> IF has("commit") THEN commit_all(st)
                  ELSE IF has("add") THEN staged ELSE st,
       commit |-> IF has("commit")
                  THEN << [msg |-> IF commit_msg = "" THEN "Auto-commit: Sync repository"
                                   ELSE commit_msg,
                           files |-> {f \in SyncFiles : st[f] \notin {Clean, Away}}] >>
                  ELSE <<>>]

SyncRepository ==
  \E commit_msg \in {"", "Test sync"}, fail \in 0..5 :
    LET r == sync_repository(status, commit_msg, fail)
    IN  /\ Len(commits) < MaxCommits
        /\ r.reached
        /\ status' = r.status
        /\ commits' = commits \o r.commit
        /\ sync_last' = [op |-> "sync", msg |-> commit_msg, fail |-> fail,
                          raised |-> r.raised, trace |-> r.trace,
                          before |-> status, after |-> r.status]
        /\ UNCHANGED <<branchvars, storevars, gitvars, forkvars, pullvars, pinvars,
                       codecvars>>

\* between two synchronisations a file of the working tree is created,
\* edited or staged
EditFile ==
  \E f \in SyncFiles, c \in StatusCodes \ {Clean, Away} :
    /\ \/ status[f] = Away /\ c \in {"??", "A "}
       \/ status[f] = "??" /\ c = "A "
       \/ status[f] = Clean /\ c \in {" M", "M "}
       \/ status[f] = " M" /\ c = "M "
    /\ status' = [status EXCEPT ![f] = c]
    /\ UNCHANGED <<commits, sync_last, branchvars, storevars, gitvars,
                   forkvars, pullvars, pinvars, codecvars>>

SpecSync == Init /\ [][SyncRepository \/ EditFile]_vars

\* --------------------------------------------- storage.FileStorage
\* str.lower() and str.title() of a metadata key
lower(k) ==
  CASE k \in {"author", "Author", "AUTHOR"} -> "author"
    [] k \in {"content", "Content"} -> "content"
    [] k \in {"timestamp", "Timestamp"} -> "timestamp"
    [] k \in {"verified", "Verified"} -> "verified"
    [] k \in {"pinned", "Pinned"} -> "pinned"
    [] OTHER -> "edited"
title(k) ==
  CASE lower(k) = "author" -> "Author"
    [] lower(k) = "content" -> "Content"
    [] lower(k) = "timestamp" -> "Timestamp"
    [] lower(k) = "verified" -> "Verified"
    [] lower(k) = "pinned" -> "Pinned"
    [] OTHER -> "Edited"

\* a dict is the sequence of its items: d[k] = v keeps the place of a key
\* the dict has and puts a new key last
dict_set(d, k, v) ==
  IF \E i \in 1..Len(d) : d[i][1] = k
  THEN [i \in 1..Len(d) |-> IF d[i][1] = k THEN <<k, v>> ELSE d[i]]
  ELSE Append(d, <<k, v>>)
RECURSIVE dict_update(_, _)
dict_update(d, u) ==
  IF u = <<>> THEN d
  ELSE dict_update(dict_set(d, Head(u)[1], Head(u)[2]), Tail(u))
dict_get(d, k, default) ==
  IF \E i \in 1..Len(d) : d[i][1] = k
  THEN (CHOOSE kv \in {d[i] : i \in 1..Len(d)} : kv[1] = k)[2]
  ELSE default

\* content.split('\n-- \n', 1): the first '-- ' line that follows a line end
cf_split(text) ==
  LET K == {k \in 2..Len(text) : text[k] = Sep}
      k0 == IF K = {} THEN Len(text) + 1 ELSE CHOOSE k \in K : \A i \in K : k <= i
  IN  <<SubSeq(text, 1, k0 - 1), SubSeq(text, k0 + 1, Len(text))>>

\* lines 168-173 and 206-211: every line with a ':' sets the lower-cased key
RECURSIVE cf_metadata(_)
cf_metadata(lines) ==
  IF lines = <<>> THEN <<>>
  ELSE LET l == lines[Len(lines)]
           d == cf_metadata(SubSeq(lines, 1, Len(lines) - 1))
       IN  IF Len(l) = 3 /\ l[2] = ":" THEN dict_set(d, lower(l[1]), l[3]) ELSE d

\* lines 131-136 and 225-230: the content, the separator and one line per
\* item, the key in title case
cf_text(content, metadata) ==
  content \o <<Sep>>
    \o [i \in 1..Len(metadata) |-> <<title(metadata[i][1]), ":", metadata[i][2]>>]

\* FileStorage.save_message, lines 113-136, metadata=None
cf_save_message(author, content, timestamp) ==
  cf_text(content, dict_update(<<>>, << <<"author", author>>,
                                        <<"timestamp", timestamp>>,
                                        <<"verified", "false">> >>))

\* FileStorage.get_message; "now" stands for datetime.now().isoformat()
cf_get_message(files, i) ==
  IF i \notin CfIds \/ files[i] = Absent THEN None
  ELSE LET parts == cf_split(files[i])
           metadata == cf_metadata(parts[2])
       IN  [id |-> i,
            content |-> strip(parts[1]),
            author |-> dict_get(metadata, "author", "anonymous"),
            timestamp |-> dict_get(metadata, "timestamp", "now"),
            verified |-> dict_get(metadata, "verified", "false")]

\* FileStorage.update_message, line 216: metadata.update(updates)
cf_update(metadata, updates) == dict_update(metadata, updates)

\* FileStorage.update_message without another call in between
cf_update_message(files, i, updates) ==
  IF files[i] = Absent THEN [ret |-> FALSE, files |-> files]
  ELSE LET parts == cf_split(files[i])
           text == cf_text(strip(parts[1]), cf_update(cf_metadata(parts[2]), updates))
       IN  [ret |-> TRUE, files |-> [files EXCEPT ![i] = text]]

CfOthers == <<branchvars, storevars, gitvars, forkvars, pullvars, pinvars, syncvars>>

CfSaveMessage ==
  \E author \in {"alice", "bob"}, content \in CfContents, timestamp \in {"t1", "t2"} :
    LET free == {i \in CfIds : cf_files[i] = Absent}
        i == CHOOSE i \in free : \A j \in free : i <= j
    IN  /\ free # {}
        /\ cf_files' = [cf_files EXCEPT ![i] = cf_save_message(author, content, timestamp)]
        /\ cf_last' = [CfIdle EXCEPT !.op = "save", !.id = i, !.ret = TRUE,
                                     !.calls = cf_last.calls,
                                     !.author = author, !.content = content,
                                     !.timestamp = timestamp,
                                     !.got = cf_get_message(cf_files', i)]
        /\ UNCHANGED <<cf_tmp, cf_calls, CfOthers>>

CfUpdateMessage ==
  \E i \in CfIds, updates \in CfUpdates :
    LET r == cf_update_message(cf_files, i, updates)
    IN  /\ cf_last.calls < MaxCfCalls
        /\ cf_files' = r.files
        /\ cf_last' = [CfIdle EXCEPT !.op = "update", !.id = i, !.ret = r.ret,
                                     !.calls = cf_last.calls + 1,
                                     !.updates = updates,
                                     !.before = cf_get_message(cf_files, i),
                                     !.got = cf_get_message(cf_files', i)]
        /\ UNCHANGED <<cf_tmp, cf_calls, CfOthers>>

SpecCodec == Init /\ [][CfSaveMessage \/ CfUpdateMessage]_vars

\* update_message on one of two threads, lines 193-213: the existence test and
\* the read under the shared lock, which is released at line 213
CfRead(t) ==
  \E i \in CfIds, updates \in CfUpdates :
    /\ cf_calls[t].pc = "idle"
    /\ cf_calls' = [cf_calls EXCEPT ![t] =
         IF cf_files[i] = Absent
         THEN [CfNoCall EXCEPT !.pc = "done", !.id = i, !.updates = updates]
         ELSE LET parts == cf_split(cf_files[i])
              IN  [pc |-> "read", id |-> i, updates |-> updates,
                   content |-> strip(parts[1]),
                   metadata |-> cf_metadata(parts[2]), ret |-> FALSE]]
    /\ UNCHANGED <<cf_files, cf_tmp, cf_last, CfOthers>>

\* lines 216-235: the updated message is written to <id>.tmp
CfWrite(t) ==
  LET c == cf_calls[t]
  IN  /\ c.pc = "read"
      /\ cf_tmp' = [cf_tmp EXCEPT ![c.id] = cf_text(c.content, cf_update(c.metadata, c.updates))]
      /\ cf_calls' = [cf_calls EXCEPT ![t].pc = "written"]
      /\ UNCHANGED <<cf_files, cf_last, CfOthers>>

\* lines 237-247: os.rename(temp_path, file_path); without the temporary
\* file the rename raises and the call returns False
CfRename(t) ==
  LET c == cf_calls[t]
  IN  /\ c.pc = "written"
      /\ IF cf_tmp[c.id] = Absent
         THEN /\ cf_calls' = [cf_calls EXCEPT ![t].pc = "done", ![t].ret = FALSE]
              /\ UNCHANGED <<cf_files, cf_tmp>>
         ELSE /\ cf_files' = [cf_files EXCEPT ![c.id] = cf_tmp[c.id]]
              /\ cf_tmp' = [cf_tmp EXCEPT ![c.id] = Absent]
              /\ cf_calls' = [cf_calls EXCEPT ![t].pc = "done", ![t].ret = TRUE]
      /\ UNCHANGED <<cf_last, CfOthers>>

NextUpdates == CfSaveMessage \/ \E t \in CfThreads : CfRead(t) \/ CfWrite(t) \/ CfRename(t)

SpecUpdates == Init /\ [][NextUpdates]_vars

\* ------------------------------------------------------------------ claims
Committed(u, i) == tree[UserBranch(u)][MsgPath(u, i)]
SaveReturnedId == last.op = "save" /\ last.ret = "id"

C13_SortedByTimestamp ==
  LET ms == get_messages(fs)
  IN  \A i, j \in 1..Len(ms) :
        (i < j /\ ms[i].timestamp # None /\ ms[j].timestamp # None)
          => Utc(ms[i].timestamp[1]) <= Utc(ms[j].timestamp[1])

\* C14: every id returned by FileStorage.save_message differs from all ids
\* returned before, and no call changes a message file that exists.
C14_FreshIdNoOverwrite ==
  /\ [](\A i, j \in 1..Len(fs_ids) : i # j => fs_ids[i] # fs_ids[j])
  /\ [][\A id \in FsIds : fs[id] # Absent => fs'[id] = fs[id]]_vars

\* C14 witness: two messages of the same second are stored under two ids
C14_Witness ==
  \E i, j \in 1..Len(fs_ids) :
    /\ i # j
    /\ fs_ids[i].local = fs_ids[j].local
    /\ fs_ids[i] # fs_ids[j]
    /\ fs[fs_ids[i]] # Absent /\ fs[fs_ids[j]] # Absent

\* C16: parsing the file written by FileStorage.save_message gives back the
\* content, the author and the timestamp of the message.
C16_RoundTrip ==
  (fs_last.op = "save" /\ fs_last.ret # None) =>
    LET d == parse_message_content(fs[fs_last.ret[1]])
    IN  /\ d.content = fs_last.msg.content
        /\ d.author = <<fs_last.msg.author>>
        /\ d.timestamp = <<fs_last.msg.timestamp>>

\* C17: a posted message whose content is empty after trimming is refused:
\* success is False and the number of stored messages does not change.
C17_EmptyContentRejected ==
  (fs_last.op = "post" /\ fs_last.msg.content = Empty) =>
    /\ ~fs_last.success
    /\ Count(fs) = fs_last.before

\* C15: in the git-backed storage every successful save_message returns an id
\* not returned before, and a committed message file keeps its content.
C15_CommittedFileImmutable ==
  /\ \A i, j \in 1..Len(gs_ids) : i # j => gs_ids[i] # gs_ids[j]
  /\ \A id \in GsIds :
       gs_last.before[id] # Absent => gs[id] = gs_last.before[id]

C22_MergeIdempotent ==
  [][(/\ merge_last.op = "merge" /\ merge_last.fail = 0
      /\ merge_last'.op = "merge" /\ merge_last'.fail = 0
      /\ merge_last'.runs = merge_last.runs + 1
      /\ cloned' = cloned)
     => /\ Cardinality(Present(main_messages')) = Cardinality(Present(main_messages))
        /\ Held(main_messages') = Held(main_messages)]_vars

\* C23: after a merge in which nothing failed, over a readable pool and peers
\* whose messages all carry an 'author', the pool holds exactly one entry per
\* distinct (content, author, timestamp) found in the pool before or in a
\* peer.
C23_OneEntryPerTriple ==
  [][(/\ merge_last'.op = "merge" /\ merge_last'.fail = 0
      /\ merge_last'.runs = merge_last.runs + 1
      /\ \A n \in Present(main_messages) : main_messages[n][1].json
      /\ \A t \in Held(main_messages) \cup PeerTriples(cloned) : t.author # "")
     => LET T == Held(main_messages) \cup PeerTriples(cloned)
        IN  /\ Held(main_messages') = T
            /\ Cardinality(Present(main_messages')) = Cardinality(T)]_vars

\* C24: in a fork synchronisation in which the clone or fetch of one peer
\* fails, every other peer the run has to process is still cloned or updated,
\* and main() still merges the peers' messages.
C24_PeerFailureDoesNotAbort ==
  (merge_last.op \in {"main", "sync_forks"} /\ merge_last.fail = 1)
    => /\ \A k \in 1..Len(merge_last.repos) :
            LET repo == merge_last.repos[k]
            IN  repo # merge_last.peer => repo \in merge_last.synced
       /\ merge_last.op = "main" => merge_last.merged

\* C25: a fork synchronisation in which nothing fails, with GITHUB_REPO set,
\* processes every URL of forks_list.txt but the local repository's own.
C25_OnlySelfSkipped ==
  (/\ merge_last.op \in {"main", "sync_forks"} /\ merge_last.fail = 0
   /\ merge_last.current_repo = RepoName)
    => merge_last.synced =
         {merge_last.lines[k] : k \in 1..Len(merge_last.lines)} \ {SelfUrl}

\* C26: a pull_from_github call made less than pull_cooldown seconds after a
\* call that contacted the remote performs no fetch, no pull and no fork sync
\* and returns False, whether or not the earlier call found new commits.
C26_PullsRateLimited ==
  (pull_last.op = "pull" /\ pull_last.at - pull_last.since < pull_cooldown)
    => ~pull_last.contacted /\ ~pull_last.ret

\* C27: a GitStorage.save_message call that made its local commit returns the
\* message id, even when the GitHub sync step that follows fails.
C27_SaveSurvivesSyncFailure ==
  (/\ gs_last.op = "save" /\ gs_last.fail \in {"none", "sync"}
   /\ gs_head # gs_last.before)
    => gs_last.ret # None

\* C28: pin_message for an id that is not in the message store reports
\* failure and leaves the pin store exactly as the call found it.
C28_PinMissingFails ==
  (pin_last.op = "pin" /\ ~pin_last.exists)
    => /\ ~pin_last.ret
       /\ pinned_data = pin_last.data
       /\ pinned_messages = pin_last.rows
       /\ messages_table = pin_last.flags

\* a pin of a missing id, made while the store held a pin
C28_Witness ==
  /\ pin_last.op = "pin" /\ ~pin_last.exists /\ ~pin_last.ret
  /\ \/ \E i \in PinIds : pinned_data[i] # NoPin
     \/ pinned_messages # <<>>

\* C29: unpin_message on a stored message that is not pinned returns success
\* and changes nothing (so the second unpin of pin, unpin, unpin succeeds too).
C29_UnpinUnpinnedSucceeds ==
  (pin_last.op = "unpin" /\ pin_last.exists /\ ~pin_last.pinned)
    => /\ pin_last.ret
       /\ pinned_data = pin_last.data
       /\ pinned_messages = pin_last.rows
       /\ messages_table = pin_last.flags

\* C30: every pin_message call on an existing message succeeds and leaves
\* exactly one pin record for it, with the pinned_by and pinned_at of that
\* call.
C30_PinIsUpsert ==
  (pin_last.op = "pin" /\ pin_last.exists)
    => /\ pin_last.ret
       /\ backend = "GitStorage" =>
            pinned_data[pin_last.id] =
              [pinned_at |-> pin_last.at, pinned_by |-> pin_last.by]
       /\ backend = "SQLiteStorage" =>
            \E k \in 1..Len(pinned_messages) :
              /\ pinned_messages[k] =
                   [message_id |-> pin_last.id, pinned_by |-> pin_last.by,
                    pinned_at |-> pin_last.at]
              /\ \A j \in 1..Len(pinned_messages) :
                   pinned_messages[j].message_id = pin_last.id => j = k

C33_CorruptFilesSkipped ==
  LET listing == FsListing(fs, 1, 0)
      good == SelectSeq(listing, LAMBDA t :
                LET m == parse_message_content(t)
                IN  /\ t \notin CorruptTexts
                    /\ m.id # None /\ m.content # None /\ m.author # None)
  IN  get_messages(fs) =
        [k \in 1..Len(good) |-> parse_message_content(good[k])]

\* a corrupt file lies between two messages of the listing
C33_Witness ==
  LET listing == FsListing(fs, 1, 0)
  IN  /\ Len(get_messages(fs)) = 2
      /\ \E k \in 2..(Len(listing) - 1) : listing[k] \in CorruptTexts

\* C34: a sync_repository call in which no command fails, made with
\* uncommitted changes in the working tree (a newly created file is one),
\* stages and commits them with the given message, then pulls once, then
\* pushes once; made with a clean working tree it commits nothing and pulls
\* once and pushes once.
C34_SyncCommitsThenPullsPushes ==
  (sync_last.op = "sync" /\ sync_last.fail = 0) =>
    IF \E f \in SyncFiles : sync_last.before[f] \notin {Clean, Away}
    THEN /\ sync_last.trace = <<"status", "add", "commit", "pull", "push">>
         /\ \A f \in SyncFiles : sync_last.after[f] \in {Clean, Away}
         /\ sync_last.msg # "" => commits[Len(commits)].msg = sync_last.msg
    ELSE sync_last.trace = <<"status", "pull", "push">>

C31_UpdateKeepsContentAndAuthor ==
  (cf_last.op = "update" /\ cf_last.before # None) =>
    /\ cf_last.got.content = cf_last.before.content
    /\ cf_last.got.author = cf_last.before.author

\* C36: get_message(save_message(author, content, timestamp)) returns the
\* content, the author and the timestamp that were saved, also for a content
\* with a '-- ' line followed by 'Key: value' lines.
C36_ContentFirstRoundTrip ==
  cf_last.op = "save" =>
    /\ cf_last.got.content = cf_last.content
    /\ cf_last.got.author = cf_last.author
    /\ cf_last.got.timestamp = cf_last.timestamp

\* C38: when two update_message calls on the same message with disjoint
\* metadata keys have both returned True, the stored message carries the
\* updates of both.
C38_NoLostUpdate ==
  LET c1 == cf_calls[1]
      c2 == cf_calls[2]
      stored == cf_metadata(cf_split(cf_files[c1.id])[2])
      carries(u) == \A k \in 1..Len(u) : dict_get(stored, lower(u[k][1]), "") = u[k][2]
  IN  (/\ c1.pc = "done" /\ c2.pc = "done" /\ c1.ret /\ c2.ret
       /\ c1.id = c2.id
       /\ \A j \in 1..Len(c1.updates), k \in 1..Len(c2.updates) :
            lower(c1.updates[j][1]) # lower(c2.updates[k][1]))
      => carries(c1.updates) /\ carries(c2.updates)


\* C37: each peer gets its own clone directory: no two distinct peer URLs
\* share the name get_unique_repo_name gives, so the directory of a URL
\* that clone_or_update_repo has cloned or updated holds the messages of
\* that URL's repository and of no other.
C37_OwnCloneDirectory ==
  (merge_last.op = "clone" /\ merge_last.synced # {}) =>
    LET d == get_unique_repo_name(merge_last.peer)
    IN  /\ cloned[d] # NoDir
        /\ cloned[d][1].files = Upstream(merge_last.peer)


\* C39: handle_post_message answers success True only if the storage's
\* save_message returned a message id: when save_message returns None the
\* response is success False.
C39_PostSuccessOnlyWithId ==
  (fs_last.op = "post" /\ fs_last.success) => fs_last.ret # None

====
